---- MODULE Spec2Model ----
(***************************************************************************)
(* State-machine model of EntNetDialog (src/src/entnet/models/entnet.py):  *)
(* the graph built by __init__, the variables held by the session, and the *)
(* two public operations batch_fit and predict.                            *)
(*                                                                         *)
(* Numbers.  Tensors hold small integers, which stand for the same reals.  *)
(* With embedding_size = 1 and num_blocks = 1 every quantity of the        *)
(* forward pass is computed exactly: the softmax over one block is 1 and a *)
(* normalised one-dimensional block state is its sign.  The learning rate  *)
(* is an exact fraction <<numerator, denominator>>.                        *)
(***************************************************************************)
EXTENDS Integers, Sequences, FiniteSets, TLC

----------------------------------------------------------------------------
(* Constructor arguments (entnet.py:17-24, stored at 57-71).               *)

BatchSize == 1
VocabSize == 2
MemorySize == 2
SentenceSize == 1
CandidatesSize == 3
LearningRateInitNum == 1
LearningRateInitDen == 100
DecayRateNum == 1
DecayRateDen == 2
DecaySteps == 25

\* candidates_vec: [candidates_size, candidate_sentence_length] token ids.
candidates_vec == << <<1, 0>>, <<1, 1>>, <<0, 0>> >>

(* Bounds of the exploration.                                              *)
MaxSteps == 52          \* completed training steps per session
MaxFailed == 1          \* batch_fit calls that raise
MaxCtorFailures == 1    \* constructor calls that raise
MaxFitsBeforeConstruct == 2  \* batch_fit calls before a second model is built

Vocab == 0 .. (VocabSize - 1)
Instances == {1, 2}
Sessions == {"default", "injected"}
Names == {"EntNet", "EntNet2"}

----------------------------------------------------------------------------
(* Arithmetic helpers.                                                     *)

Abs(x) == IF x < 0 THEN -x ELSE x
Sgn(x) == IF x > 0 THEN 1 ELSE IF x < 0 THEN -1 ELSE 0

RECURSIVE Pow(_, _)
Pow(b, e) == IF e = 0 THEN 1 ELSE b * Pow(b, e - 1)

RECURSIVE reduce_sum(_)
reduce_sum(s) == IF s = <<>> THEN 0 ELSE Head(s) + reduce_sum(Tail(s))

\* equality of two fractions <<n, d>> with positive denominators
RatEq(a, b) == a[1] * b[2] = b[1] * a[2]
RatMul(a, b) == <<a[1] * b[1], a[2] * b[2]>>

----------------------------------------------------------------------------
(* Learnable parameters.  One valuation of every variable the graph of one *)
(* model creates: the two embedding tables (entnet.py:112, 116), the two   *)
(* positional masks (167), the block key (139), the output matrix H (190), *)
(* the output activation's slope, and the cell's U, V, W, bias and slope.  *)

MkParams(ie0, ie1, oe0, oe1, spm, qpm, k, u, v, w, b, ca, h, oa) ==
    [input_embedding       |-> [i \in Vocab |-> IF i = 0 THEN ie0 ELSE ie1],
     output_embedding      |-> [i \in Vocab |-> IF i = 0 THEN oe0 ELSE oe1],
     story_positional_mask |-> [j \in 1 .. SentenceSize |-> spm],
     query_positional_mask |-> [j \in 1 .. SentenceSize |-> qpm],
     key |-> k, U |-> u, V |-> v, W |-> w, U_bias |-> b, cell_alpha |-> ca,
     H |-> h, output_alpha |-> oa]

\* The valuations explored.  The optimizer may move the parameters to any of
\* them; the first two are also possible results of the initializers.
ParamSpace ==
    { MkParams( 1,  1, -1,  1,  1,  1,  1,  0,  0,  1,  0,  1,  1,  1),
      MkParams(-1, -1,  1, -1,  1,  1, -1,  1,  1, -1,  1,  1, -1,  1),
      MkParams( 1,  1,  1,  1, -1,  0,  1,  1, -1,  1, -1,  0,  1, -1) }

\* global_variables_initializer (entnet.py:97, 100): the positional masks are
\* filled with 1.0 (165) and the activation slopes with 1.0 (65, 67); every
\* other variable is drawn from the random normal initializer (66, 109).
InitParams ==
    { p \in ParamSpace :
        /\ \A j \in 1 .. SentenceSize :
              p.story_positional_mask[j] = 1 /\ p.query_positional_mask[j] = 1
        /\ p.cell_alpha = 1
        /\ p.output_alpha = 1 }

----------------------------------------------------------------------------
(* The forward pass, entnet.py:108-198.                                    *)

\* mutant of embedding_mask: the nil word is not masked
embedding_mask_all_ones(i) == 1

\* entnet.py:113-114, 117-118: 0 for the nil word, 1 for every other word
embedding_mask(i) == IF i = 0 THEN 0 ELSE 1

\* entnet.py:115
input_embedding_masked(p) ==
    [i \in Vocab |-> p.input_embedding[i] * embedding_mask(i)]

\* entnet.py:119
output_embedding_masked(p) ==
    [i \in Vocab |-> p.output_embedding[i] * embedding_mask(i)]

\* tf.nn.embedding_lookup of one sentence of token ids
embedding_lookup(table, sentence) ==
    [j \in 1 .. Len(sentence) |-> table[sentence[j]]]

\* entnet.py:164-169: position-weighted sum over the sentence axis
get_input_encoding(embedding, positional_mask) ==
    reduce_sum([j \in 1 .. Len(embedding) |-> embedding[j] * positional_mask[j]])

\* activations.prelu: relu(x) + alpha * (x - |x|) * 0.5
prelu(x, alpha) ==
    (IF x > 0 THEN x ELSE 0) + alpha * ((x - Abs(x)) \div 2)

\* model_utils.get_sequence_length: the number of time steps whose feature
\* vector has a non-zero entry
get_sequence_length(encoded) ==
    reduce_sum([t \in 1 .. Len(encoded) |-> IF Abs(encoded[t]) > 0 THEN 1 ELSE 0])

\* sign of n - (1 + e^(-z)) for integers n >= 0 and z >= -2:
\* 1 + e^2 = 8.39, 1 + e = 3.72, 1 + e^0 = 2, 1 < 1 + e^(-z) < 2 for z >= 1
CompareToInverseGate(n, z) ==
    LET floor == IF z >= 1 THEN 1 ELSE IF z = 0 THEN 2 ELSE IF z = -1 THEN 3 ELSE 8
    IN  IF n > floor THEN 1 ELSE IF n = 2 /\ z = 0 THEN 0 ELSE -1

\* DynamicMemoryCell.__call__ for one block of width one: the gate
\* sigmoid(x.h + x.k), the candidate prelu(U.h + V.k + W.x + bias), the update
\* h + gate * candidate, and its normalisation h / ||h|| (0 stays 0).
DynamicMemoryCell(p, x, h) ==
    LET z         == x * h + x * p.key
        candidate == prelu(p.U * h + p.V * p.key + p.W * x + p.U_bias, p.cell_alpha)
    IN  IF h = 0 THEN Sgn(candidate)
        ELSE IF h * candidate >= 0 THEN h
        ELSE LET c == CompareToInverseGate(Abs(candidate), z)
             IN  IF c < 0 THEN h ELSE IF c = 0 THEN 0 ELSE -h

\* tf.nn.dynamic_rnn with sequence_length (entnet.py:149-151): the cell is
\* applied at time = 0, 1, ... in order and its result is kept only while
\* time < sequence_length; afterwards the state is copied through.
RECURSIVE dynamic_rnn(_, _, _, _, _)
dynamic_rnn(p, inputs, sequence_length, time, state) ==
    IF time >= Len(inputs) THEN state
    ELSE dynamic_rnn(p, inputs, sequence_length, time + 1,
                     IF time >= sequence_length THEN state
                     ELSE DynamicMemoryCell(p, inputs[time + 1], state))

\* entnet.py:171-198 for one example.  With one block the attention
\* softmax(a - max a) is exactly 1, so u is the block's state.
get_output(p, last_state, encoded_query) ==
    LET attention == 1
        u == last_state * attention
        q == encoded_query
        candidates_emb_sum ==
            [c \in 1 .. CandidatesSize |->
                reduce_sum(embedding_lookup(output_embedding_masked(p), candidates_vec[c]))]
        a == prelu(q + u * p.H, p.output_alpha)
    IN  [c \in 1 .. CandidatesSize |-> a * candidates_emb_sum[c]]

\* tf.argmax(logits, 1), entnet.py:86: the 0-based position of the first maximum
argmax(logits) ==
    (CHOOSE c \in 1 .. Len(logits) :
        /\ \A d \in 1 .. Len(logits) : logits[d] <= logits[c]
        /\ \A d \in 1 .. (c - 1) : logits[d] < logits[c]) - 1

\* entnet.py:121-162 on a fed batch.  initial_state was built by
\* cell.zero_state(self._batch_size) at construction (147); the recurrence
\* combines it row by row with the fed stories, which raises in the session
\* when the two batch dimensions differ.
inference(p, initial_state, stories, queries) ==
    LET masked == input_embedding_masked(p)
        n == Len(stories)
        encoded_story ==
            [b \in 1 .. n |->
                [t \in 1 .. Len(stories[b]) |->
                    get_input_encoding(embedding_lookup(masked, stories[b][t]),
                                       p.story_positional_mask)]]
        encoded_query ==
            [b \in 1 .. n |->
                << get_input_encoding(embedding_lookup(masked, queries[b]),
                                      p.query_positional_mask) >>]
        sequence_length == [b \in 1 .. n |-> get_sequence_length(encoded_query[b])]
        raised == n # Len(initial_state)
        last_state ==
            [b \in 1 .. n |->
                dynamic_rnn(p, encoded_story[b], sequence_length[b], 0, initial_state[b])]
    IN  [raised          |-> raised,
         sequence_length |-> sequence_length,
         logits          |-> IF raised THEN <<>>
                             ELSE [b \in 1 .. n |->
                                      get_output(p, last_state[b], encoded_query[b][1])]]

\* cell.zero_state(batch_size, tf.float32), entnet.py:147
zero_state(batch_size) == [b \in 1 .. batch_size |-> 0]

(* Feeds.  A story is memory_size sentences, the real ones first and nil   *)
(* sentences after them; a query is one sentence.                          *)
NilSentence == [j \in 1 .. SentenceSize |-> 0]
Sentences == [1 .. SentenceSize -> Vocab]
Stories ==
    { s \in [1 .. MemorySize -> Sentences] :
        \A t \in 1 .. (MemorySize - 1) : s[t] = NilSentence => s[t + 1] = NilSentence }
Examples == Stories \X Sentences
BatchLens == {1, 2}
\* a fed batch: the same example len(stories) times (examples do not interact)
Feeds ==
    { [stories |-> [b \in 1 .. n |-> e[1]], queries |-> [b \in 1 .. n |-> e[2]]] :
        e \in Examples, n \in BatchLens }

\* The forward pass of every parameter valuation on every feed, for an
\* initial state of either batch dimension, evaluated once.
Forward ==
    [p \in ParamSpace |->
        [n \in BatchLens |->
            [f \in Feeds |-> inference(p, zero_state(n), f.stories, f.queries)]]]

\* what self._sess.run computes from the variables sv on a feed (240, 259)
session_run(sv, m, i, stories, queries) ==
    Forward[sv.params[i]][Len(m.initial_state)][[stories |-> stories, queries |-> queries]]

----------------------------------------------------------------------------
(* Training step, entnet.py:206-221.                                       *)

\* mutant of exponential_decay: the rate decays one step early
exponential_decay_early(global_step) ==
    LET e == (global_step + 1) \div DecaySteps
    IN  << LearningRateInitNum * Pow(DecayRateNum, e),
           LearningRateInitDen * Pow(DecayRateDen, e) >>

\* tf.train.exponential_decay(..., staircase=True), entnet.py:209-214
exponential_decay(global_step) ==
    LET e == global_step \div DecaySteps
    IN  << LearningRateInitNum * Pow(DecayRateNum, e),
           LearningRateInitDen * Pow(DecayRateDen, e) >>

\* mutant of assign_add_global_step: the counter is not passed to the optimizer
assign_add_global_step_skipped(global_step) == global_step

\* optimize_loss(..., global_step=global_step), entnet.py:216: one increment
\* of the counter per run of train_op
assign_add_global_step(global_step) == global_step + 1

\* one run of train_op in a session: the optimizer rewrites the parameters of
\* the model (to new_params) and the counter advances
train_op(sv, i, new_params) ==
    [sv EXCEPT !.params[i] = new_params,
               !.global_step = assign_add_global_step(@)]

\* mutant of summary_global_step: the summary is filed under the true step
summary_global_step_true(global_step) == global_step

\* entnet.py:241: the step the summary is filed under
summary_global_step(global_step) == 6024

\* mutant of set_batch_size: the initial state follows the tracked batch size
set_batch_size_rebuilding(m, n) ==
    [m EXCEPT !.batch_size = n, !.initial_state = [b \in 1 .. n |-> 0]]

\* entnet.py:234 and 254: self._batch_size = len(stories); the graph, and with
\* it initial_state, is left as built
set_batch_size(m, n) == [m EXCEPT !.batch_size = n]

\* entnet.py:239: tf.summary.merge_all() builds a new merge op on every call
merge_all(g) == [g EXCEPT !.merged = @ + 1]

\* mutant of predict_fetches: predict also runs the training op
predict_fetches_with_train_op == {"predict_op", "train_op"}

\* the ops predict runs, entnet.py:259
predict_fetches == {"predict_op"}

----------------------------------------------------------------------------
(* State.                                                                  *)

VARIABLES
    model,      \* per instance: the fields of the EntNetDialog object
    sessVars,   \* per session: the values of the graph's variables
    graph,      \* the default graph: what has been added to it
    log,        \* per instance: the records written by its FileWriter
    completed,  \* per instance: batch_fit calls that returned
    last        \* the most recent call: its feed and what it produced

vars == <<model, sessVars, graph, log, completed, last>>

NoModel ==
    [built |-> FALSE, name |-> "", sess |-> "", batch_size |-> 0, initial_state |-> <<>>]

\* entnet.py:57-72, 98, 147
NewModel(name, sess) ==
    [built |-> TRUE, name |-> name, sess |-> sess, batch_size |-> BatchSize,
     initial_state |-> zero_state(BatchSize)]

NoVars == [initialized |-> FALSE, global_step |-> 0, params |-> <<>>]

Call(i, op, raised, stories, queries, sequence_length, out, repeat) ==
    [inst |-> i, op |-> op, raised |-> raised, stories |-> stories,
     queries |-> queries, sequence_length |-> sequence_length, out |-> out,
     repeat |-> repeat]

\* the labels enter only the loss, whose value is not modelled: the optimizer
\* may write any valuation whatever they are
Answers(n) == { [b \in 1 .. n |-> 0] }

Init ==
    /\ model = [i \in Instances |-> IF i = 1 THEN NewModel("EntNet", "default") ELSE NoModel]
    /\ \E p \in InitParams :
          sessVars = [s \in Sessions |->
                        IF s = "default"
                        THEN [initialized |-> TRUE, global_step |-> 0, params |-> <<p>>]
                        ELSE NoVars]
    /\ graph = [scopes |-> {"EntNet"}, placeholders |-> 3, merged |-> 0, models |-> {1}]
    /\ log = [i \in Instances |-> <<>>]
    /\ completed = [i \in Instances |-> 0]
    /\ last = Call(1, "construct", FALSE, <<>>, <<>>, <<>>, <<>>, FALSE)

----------------------------------------------------------------------------
(* Operations.                                                             *)

\* batch_fit calls that raised so far (every call adds one merge op)
FailedFits == graph.merged - (completed[1] + completed[2])

\* constructor calls that raised so far (every call adds three placeholders)
FailedCtors == (graph.placeholders \div 3) - Cardinality(graph.models)

\* What one run of [loss_op, train_op, merged] (entnet.py:240) can do to the
\* session's variables.  merged holds the summaries of every model of the
\* graph, so the run also needs the placeholders of the other models, which
\* are not fed: it then raises, and whether train_op, which does not depend on
\* them, was already applied is not determined.  A run that raises inside the
\* forward pass never reaches train_op.
FitOutcomes(i, sv, run) ==
    LET trained == { [raised |-> FALSE, vars |-> train_op(sv, i, q)] : q \in ParamSpace }
        unfed   == graph.models \ {i}
    IN  IF run.raised THEN { [raised |-> TRUE, vars |-> sv] }
        ELSE IF unfed = {} THEN trained
        ELSE { [raised |-> TRUE, vars |-> o.vars] : o \in trained }
             \cup { [raised |-> TRUE, vars |-> sv] }

\* entnet.py:223-242
batch_fit(i, stories, queries, answers) ==
    /\ model[i].built
    /\ LET s   == model[i].sess
           sv  == sessVars[s]
           run == session_run(sv, model[i], i, stories, queries)
       IN  \E o \in FitOutcomes(i, sv, run) :
              /\ o.vars # sv => sv.global_step < MaxSteps
              /\ o.raised => FailedFits < MaxFailed
              /\ model' = [model EXCEPT ![i] = set_batch_size(@, Len(stories))]
              /\ graph' = merge_all(graph)
              /\ sessVars' = [sessVars EXCEPT ![s] = o.vars]
              /\ IF o.raised
                 THEN UNCHANGED <<log, completed>>
                 ELSE /\ log' = [log EXCEPT ![i] =
                                   Append(@, [global_step   |-> summary_global_step(sv.global_step),
                                              learning_rate |-> exponential_decay(sv.global_step)])]
                      /\ completed' = [completed EXCEPT ![i] = @ + 1]
              /\ last' = Call(i, "batch_fit", o.raised, stories, queries,
                              run.sequence_length, <<>>, FALSE)

\* entnet.py:244-259
predict(i, stories, queries) ==
    /\ model[i].built
    /\ LET s   == model[i].sess
           sv  == sessVars[s]
           run == session_run(sv, model[i], i, stories, queries)
           out == IF run.raised THEN <<>>
                  ELSE [b \in 1 .. Len(stories) |-> argmax(run.logits[b])]
       IN  /\ model' = [model EXCEPT ![i] = set_batch_size(@, Len(stories))]
           /\ IF "train_op" \in predict_fetches /\ ~run.raised /\ sv.global_step < MaxSteps
              THEN \E q \in ParamSpace : sessVars' = [sessVars EXCEPT ![s] = train_op(sv, i, q)]
              ELSE UNCHANGED sessVars
           /\ last' = Call(i, "predict", run.raised, stories, queries,
                           run.sequence_length, out,
                           /\ last.op = "predict"
                           /\ last.inst = i
                           /\ last.stories = stories
                           /\ last.queries = queries)
           /\ UNCHANGED <<graph, log, completed>>

\* EntNetDialog(..., session=sess, name=name) for a second model of the
\* process, entnet.py:17-101.  The default value of session is one object,
\* made when the class is defined (23); "injected" is a session of the
\* caller's own.  Both models are built in the default graph.
construct(i, name, sess) ==
    /\ ~model[i].built
    /\ graph.merged <= MaxFitsBeforeConstruct
    /\ IF name \in graph.scopes
       THEN \* tf.get_variable (112) raises: the variable exists already;
            \* _build_inputs (75) has added its three placeholders by then
            /\ FailedCtors < MaxCtorFailures
            /\ graph' = [graph EXCEPT !.placeholders = @ + 3]
            /\ last' = Call(i, "construct", TRUE, <<>>, <<>>, <<>>, <<>>, FALSE)
            /\ UNCHANGED <<model, sessVars, log, completed>>
       ELSE \* init_op (97) initializes every variable of the graph, those of
            \* the models built before included, and resets the global step
            /\ graph' = [graph EXCEPT !.scopes = @ \cup {name},
                                      !.placeholders = @ + 3,
                                      !.models = @ \cup {i}]
            /\ \E ps \in [graph.models \cup {i} -> InitParams] :
                  sessVars' = [sessVars EXCEPT ![sess] =
                                 [initialized |-> TRUE, global_step |-> 0, params |-> ps]]
            /\ model' = [model EXCEPT ![i] = NewModel(name, sess)]
            /\ log' = [log EXCEPT ![i] = <<>>]
            /\ last' = Call(i, "construct", FALSE, <<>>, <<>>, <<>>, <<>>, FALSE)
            /\ UNCHANGED completed

BatchFit ==
    \E i \in Instances, f \in Feeds :
        \E a \in Answers(Len(f.stories)) : batch_fit(i, f.stories, f.queries, a)

Predict == \E i \in Instances, f \in Feeds : predict(i, f.stories, f.queries)

Construct == \E name \in Names, sess \in Sessions : construct(2, name, sess)

\* one model in the process
Next == BatchFit \/ Predict

Spec == Init /\ [][Next]_vars

\* two models in the process
NextTwo == BatchFit \/ Predict \/ Construct

SpecTwo == Init /\ [][NextTwo]_vars

----------------------------------------------------------------------------
(* Properties.                                                             *)

Built == { i \in Instances : model[i].built }
VarsOf(i) == sessVars[model[i].sess]
IsRun == last.op \in {"batch_fit", "predict"}
NonPaddingSentences(story) ==
    Cardinality({ t \in 1 .. Len(story) : story[t] # NilSentence })
LearningRateInit == <<LearningRateInitNum, LearningRateInitDen>>
DecayRate == <<DecayRateNum, DecayRateDen>>

\* C1: in every run of the graph that completes, the sequence length handed
\* to the story recurrence is, for each example of the batch, the number of
\* non-padding sentences of that example's story.
C1_SequenceLengthCountsStorySentences ==
    (IsRun /\ ~last.raised) =>
        \A b \in 1 .. Len(last.stories) :
            last.sequence_length[b] = NonPaddingSentences(last.stories[b])

\* C2: the global step counter of a model equals the number of its batch_fit
\* calls that have completed, whatever predict calls came between, and no
\* step decreases it.
C2_GlobalStepCountsCompletedFits ==
    /\ [](\A i \in Built : VarsOf(i).global_step = completed[i])
    /\ [][\A i \in Built : VarsOf(i)'.global_step >= VarsOf(i).global_step]_vars

C2_Witness ==
    /\ completed[1] >= 2
    /\ FailedFits > 0
    /\ last.op = "predict"

\* C3: no two models share a session, and no operation on one model changes
\* the session, the parameters or the global step counter that another model
\* observes.
Observed(i) ==
    [sess |-> model[i].sess, params |-> VarsOf(i).params[i],
     global_step |-> VarsOf(i).global_step]

C3_NoSharedState ==
    [][/\ \A i \in Built : last'.inst # i => Observed(i)' = Observed(i)
       /\ \A i, j \in Instances :
             (model'[i].built /\ model'[j].built /\ i # j) => model'[i].sess # model'[j].sess
      ]_vars

\* C4: a predict call changes no variable of the session (no parameter and not
\* the global step), and a predict call that repeats the feed of the predict
\* call just before it has the same result.
C4_PredictIsPure ==
    [][last'.op = "predict" =>
          /\ sessVars' = sessVars
          /\ last'.repeat => (last'.raised = last.raised /\ last'.out = last.out)
      ]_vars

C4_Witness ==
    /\ last.op = "predict"
    /\ last.repeat
    /\ ~last.raised
    /\ completed[1] >= 1

\* C5: after construction no batch_fit or predict call adds anything to the
\* graph, and none creates or destroys a learnable parameter.
C5_GraphFixedAfterConstruction ==
    [][/\ graph' = graph
       /\ \A s \in Sessions : DOMAIN sessVars'[s].params = DOMAIN sessVars[s].params
      ]_vars

\* C6: the learning rate of the first training step is lr_init; from one
\* training step to the next it is multiplied by decay_rate when the number of
\* steps taken before is a multiple of decay_steps and is unchanged otherwise;
\* so steps that are decay_steps apart differ by the factor decay_rate.
C6_StaircaseDecay ==
    \A i \in Built :
        \A k \in 1 .. Len(log[i]) :
            LET lr(n) == log[i][n].learning_rate
            IN  /\ k = 1 => RatEq(lr(k), LearningRateInit)
                /\ k > 1 =>
                      RatEq(lr(k), IF (k - 1) % DecaySteps = 0
                                   THEN RatMul(lr(k - 1), DecayRate)
                                   ELSE lr(k - 1))
                /\ k > DecaySteps => RatEq(lr(k), RatMul(lr(k - DecaySteps), DecayRate))

C6_Witness ==
    /\ Len(log[1]) >= 2 * DecaySteps + 2
    /\ RatEq(log[1][DecaySteps].learning_rate, LearningRateInit)
    /\ RatEq(log[1][DecaySteps + 1].learning_rate, RatMul(LearningRateInit, DecayRate))
    /\ RatEq(log[1][2 * DecaySteps].learning_rate, RatMul(LearningRateInit, DecayRate))
    /\ RatEq(log[1][2 * DecaySteps + 2].learning_rate,
             RatMul(RatMul(LearningRateInit, DecayRate), DecayRate))

\* C7: row 0 of the masked input embedding table and of the masked output
\* embedding table is zero, whatever the learnable tables hold.
C7_NilRowIsZero ==
    \A i \in Built :
        /\ input_embedding_masked(VarsOf(i).params[i])[0] = 0
        /\ output_embedding_masked(VarsOf(i).params[i])[0] = 0

C7_Witness ==
    /\ completed[1] >= 1
    /\ VarsOf(1).params[1].input_embedding[0] # 0
    /\ VarsOf(1).params[1].output_embedding[0] # 0

\* C8: for any fed batch, predict returns one entry per example, each a
\* candidate index in [0, candidates_size) at which the example's logits are
\* largest.
C8_PredictOnePerExample ==
    last.op = "predict" =>
        /\ ~last.raised
        /\ Len(last.out) = Len(last.stories)
        /\ LET run == session_run(VarsOf(last.inst), model[last.inst], last.inst,
                                  last.stories, last.queries)
           IN  \A b \in 1 .. Len(last.stories) :
                  /\ last.out[b] \in 0 .. (CandidatesSize - 1)
                  /\ \A c \in 1 .. CandidatesSize :
                        run.logits[b][c] <= run.logits[b][last.out[b] + 1]

\* C9: a batch_fit call that returns appends exactly one record to the log of
\* its model and the record's step is 6024; a predict call appends none; so
\* the log holds one record per returned batch_fit call, all under step 6024.
C9_OneSummaryUnderFixedStep ==
    /\ [](\A i \in Built :
            /\ Len(log[i]) = completed[i]
            /\ \A k \in 1 .. Len(log[i]) : log[i][k].global_step = 6024)
    /\ [][/\ (last'.op = "batch_fit" /\ ~last'.raised) =>
               /\ Len(log'[last'.inst]) = Len(log[last'.inst]) + 1
               /\ SubSeq(log'[last'.inst], 1, Len(log[last'.inst])) = log[last'.inst]
          /\ last'.op = "predict" => log' = log
         ]_vars

C9_Witness ==
    /\ Len(log[1]) >= 3
    /\ VarsOf(1).global_step >= 3
    /\ last.op = "predict"

\* C10: the initial state of the recurrence keeps the batch dimension given to
\* the constructor, whatever batch sizes the calls have tracked.
C10_InitialStateKeepsConstructorBatch ==
    \A i \in Built : Len(model[i].initial_state) = BatchSize

C10_Witness ==
    /\ IsRun
    /\ model[1].batch_size = Len(last.stories)
    /\ model[1].batch_size # BatchSize

====
